---- MODULE Spec2Model ----
(***************************************************************************)
(* Model of serial/open_darwin.go: the conversion of OpenOptions into a    *)
(* termios structure (convertOptions) and the activation sequence of       *)
(* openInternal (open, clear O_NONBLOCK, convert, TIOCSETA).               *)
(***************************************************************************)
EXTENDS Integers, Sequences, FiniteSets, TLC

VARIABLES
    options,    \* the OpenOptions argument of the call in progress
    pc,         \* position in convertOptions / openInternal
    conv,       \* what convertOptions returned: [result, err]
    fd,         \* state of the descriptor obtained by os.OpenFile
    calls,      \* history of the steps performed, with what each returned
    applied,    \* the termios handed to the TIOCSETA ioctl
    ret         \* what openInternal returned: [file, err]

vars == <<options, pc, conv, fd, calls, applied, ret>>

----------------------------------------------------------------------------
(* Bounds of the input domains.                                            *)

MaxTimeout == 25700
MaxReadSize == 520
MaxLowBaud == 60
MaxDataBits == 9
MaxStopBits == 3
MaxParityMode == 3
MaxErrno == 2
MaxR1 == 1

----------------------------------------------------------------------------
(* sys/termios.h constants and types.                                      *)

kCS5 == 0
kCS6 == 256
kCS7 == 512
kCS8 == 768
kCLOCAL == 32768
kCREAD == 2048
kCSTOPB == 1024
kIGNPAR == 4
kPARENB == 4096
kPARODD == 8192
kNCCS == 20
kVMIN == 16
kVTIME == 17

PARITY_NONE == 0
PARITY_ODD == 1
PARITY_EVEN == 2

\* type cc_t byte: a conversion to cc_t keeps the low 8 bits.
cc_t(x) == x % 256

\* type speed_t uint64 and Go's 64-bit uint: a conversion from a non-negative
\* value below 2^64 keeps it, and every value here is below 2^31.
speed_t(x) == x

uint(x) == x

\* The | operator on flag words.
RECURSIVE BitOr(_, _)
BitOr(a, b) ==
    IF a = 0 THEN b
    ELSE IF b = 0 THEN a
    ELSE (IF a % 2 = 1 \/ b % 2 = 1 THEN 1 ELSE 0) + 2 * BitOr(a \div 2, b \div 2)

\* var result termios: every field zero.
ZeroTermios ==
    [c_iflag |-> 0, c_oflag |-> 0, c_cflag |-> 0, c_lflag |-> 0,
     c_cc |-> [i \in 0 .. (kNCCS - 1) |-> 0],
     c_ispeed |-> 0, c_ospeed |-> 0]

\* The nil *termios.
NilTermios == [nil |-> TRUE]

----------------------------------------------------------------------------
(* Errors.                                                                 *)

NilError == [syscall |-> "", errno |-> 0, msg |-> ""]

errors_New(msg) == [syscall |-> "", errno |-> 0, msg |-> msg]

\* os.NewSyscallError returns nil when errno is 0.
NewSyscallError(syscall, errno) ==
    IF errno = 0 THEN NilError
    ELSE [syscall |-> syscall, errno |-> errno, msg |-> ""]

ErrTimingBoth == errors_New("Invalid values for InterCharacterTimeout and MinimumReadSize.")
ErrTimeout == errors_New("Invalid value for InterCharacterTimeout.")
ErrBaudRate == errors_New("Invalid setting for BaudRate.")
ErrDataBits == errors_New("Invalid setting for DataBits.")
ErrStopBits == errors_New("Invalid setting for StopBits.")
ErrParityMode == errors_New("Invalid setting for ParityMode.")
ErrFcntl == errors_New("Unknown error from SYS_FCNTL.")
ErrIoctl == errors_New("Unknown error from SYS_IOCTL.")

Fail(e) == [result |-> NilTermios, err |-> e]
Ok(t) == [result |-> t, err |-> NilError]

----------------------------------------------------------------------------
(* convertOptions.                                                         *)

\* round(f) = math.Floor(f + 0.5), on the float64 value n/d.
roundTrunc(n, d) == n \div d
round(n, d) == (2 * n + d) \div (2 * d)

\* vtime := uint(round(float64(options.InterCharacterTimeout)/100.0) * 100)
vtimeOf(t) == uint(round(t, 100) * 100)

\* result.c_cflag |= kCLOCAL; result.c_cflag |= kCREAD
BaselineIgnPar ==
    [ZeroTermios EXCEPT !.c_cflag = BitOr(BitOr(ZeroTermios.c_cflag, kCLOCAL), kCREAD),
                        !.c_iflag = BitOr(ZeroTermios.c_iflag, kIGNPAR)]
Baseline ==
    [ZeroTermios EXCEPT !.c_cflag = BitOr(BitOr(ZeroTermios.c_cflag, kCLOCAL), kCREAD)]

\* The sanity check of vmin and vtime, then the VMIN and VTIME slots.
ApplyTimingUnrounded(result, o) ==
    LET vtime == o.InterCharacterTimeout
        vmin == o.MinimumReadSize
    IN  IF vmin = 0 /\ vtime < 100 THEN Fail(ErrTimingBoth)
        ELSE IF vtime > 25500 THEN Fail(ErrTimeout)
        ELSE Ok([result EXCEPT !.c_cc[kVTIME] = cc_t(vtime \div 100),
                               !.c_cc[kVMIN] = cc_t(vmin)])
ApplyTiming(result, o) ==
    LET vtime == vtimeOf(o.InterCharacterTimeout)
        vmin == o.MinimumReadSize
    IN  IF vmin = 0 /\ vtime < 100 THEN Fail(ErrTimingBoth)
        ELSE IF vtime > 25500 THEN Fail(ErrTimeout)
        ELSE Ok([result EXCEPT !.c_cc[kVTIME] = cc_t(vtime \div 100),
                               !.c_cc[kVMIN] = cc_t(vmin)])

\* The cases of switch options.BaudRate.
BaudRateCases ==
    {50, 75, 110, 134, 150, 200, 300, 600, 1200, 1800, 2400, 4800, 7200, 9600,
     14400, 19200, 28800, 38400, 57600, 76800, 115200, 230400}

ApplyBaudRateInputOnly(result, o) ==
    IF o.BaudRate \in BaudRateCases
    THEN Ok([result EXCEPT !.c_ispeed = speed_t(o.BaudRate)])
    ELSE Fail(ErrBaudRate)
ApplyBaudRate(result, o) ==
    IF o.BaudRate \in BaudRateCases
    THEN Ok([result EXCEPT !.c_ispeed = speed_t(o.BaudRate),
                           !.c_ospeed = speed_t(o.BaudRate)])
    ELSE Fail(ErrBaudRate)

ApplyDataBitsSwapped(result, o) ==
    CASE o.DataBits = 5 -> Ok([result EXCEPT !.c_cflag = BitOr(@, kCS5)])
      [] o.DataBits = 6 -> Ok([result EXCEPT !.c_cflag = BitOr(@, kCS6)])
      [] o.DataBits = 7 -> Ok([result EXCEPT !.c_cflag = BitOr(@, kCS8)])
      [] o.DataBits = 8 -> Ok([result EXCEPT !.c_cflag = BitOr(@, kCS8)])
      [] OTHER -> Fail(ErrDataBits)
ApplyDataBits(result, o) ==
    CASE o.DataBits = 5 -> Ok([result EXCEPT !.c_cflag = BitOr(@, kCS5)])
      [] o.DataBits = 6 -> Ok([result EXCEPT !.c_cflag = BitOr(@, kCS6)])
      [] o.DataBits = 7 -> Ok([result EXCEPT !.c_cflag = BitOr(@, kCS7)])
      [] o.DataBits = 8 -> Ok([result EXCEPT !.c_cflag = BitOr(@, kCS8)])
      [] OTHER -> Fail(ErrDataBits)

ApplyStopBitsDefaultOne(result, o) ==
    CASE o.StopBits = 2 -> Ok([result EXCEPT !.c_cflag = BitOr(@, kCSTOPB)])
      [] OTHER -> Ok(result)
ApplyStopBits(result, o) ==
    CASE o.StopBits = 1 -> Ok(result)
      [] o.StopBits = 2 -> Ok([result EXCEPT !.c_cflag = BitOr(@, kCSTOPB)])
      [] OTHER -> Fail(ErrStopBits)

ApplyParityModeEvenOdd(result, o) ==
    CASE o.ParityMode = PARITY_NONE -> Ok(result)
      [] o.ParityMode = PARITY_ODD ->
            Ok([result EXCEPT !.c_cflag = BitOr(@, kPARENB)])
      [] o.ParityMode = PARITY_EVEN ->
            Ok([result EXCEPT !.c_cflag = BitOr(BitOr(@, kPARENB), kPARODD)])
      [] OTHER -> Fail(ErrParityMode)
ApplyParityMode(result, o) ==
    CASE o.ParityMode = PARITY_NONE -> Ok(result)
      [] o.ParityMode = PARITY_ODD ->
            Ok([result EXCEPT !.c_cflag = BitOr(BitOr(@, kPARENB), kPARODD)])
      [] o.ParityMode = PARITY_EVEN ->
            Ok([result EXCEPT !.c_cflag = BitOr(@, kPARENB)])
      [] OTHER -> Fail(ErrParityMode)

\* The whole function: the first failing check returns (nil, err).
convertOptions(o) ==
    LET s1 == ApplyTiming(Baseline, o) IN
    IF s1.err # NilError THEN s1 ELSE
    LET s2 == ApplyBaudRate(s1.result, o) IN
    IF s2.err # NilError THEN s2 ELSE
    LET s3 == ApplyDataBits(s2.result, o) IN
    IF s3.err # NilError THEN s3 ELSE
    LET s4 == ApplyStopBits(s3.result, o) IN
    IF s4.err # NilError THEN s4 ELSE
    ApplyParityMode(s4.result, o)

----------------------------------------------------------------------------
(* Input domains.                                                          *)

OpenOptions(baud, data, stop, parity, vmin, timeout) ==
    [BaudRate |-> baud, DataBits |-> data, StopBits |-> stop,
     ParityMode |-> parity, MinimumReadSize |-> vmin,
     InterCharacterTimeout |-> timeout]

BaudRateInputs ==
    (0 .. MaxLowBaud) \cup {r + d : r \in BaudRateCases, d \in {-1, 0, 1}}

\* Every timeout against the read sizes that decide the timing check.
TimingInputs(o) ==
    \E vmin \in {0, 1}, t \in 0 .. MaxTimeout :
        o = OpenOptions(9600, 8, 1, PARITY_NONE, vmin, t)

\* Every read size against the timeouts around the rounding boundaries.
ReadSizeInputs(o) ==
    \E vmin \in 0 .. MaxReadSize, t \in {0, 49, 50, 100, 25549, 25550} :
        o = OpenOptions(9600, 8, 1, PARITY_NONE, vmin, t)

\* Every combination of the framing fields.
FramingInputs(o) ==
    \E baud \in BaudRateInputs, data \in 0 .. MaxDataBits,
       stop \in 0 .. MaxStopBits, parity \in 0 .. MaxParityMode,
       vmin \in {0, 1}, t \in {0, 100} :
        o = OpenOptions(baud, data, stop, parity, vmin, t)

\* The options openInternal is called with: each field valid or not.
OpenInputs ==
    {OpenOptions(baud, data, stop, parity, vmin, t) :
        baud \in {9600, 9601}, data \in {8, MaxDataBits},
        stop \in {1, MaxStopBits}, parity \in {PARITY_NONE, MaxParityMode},
        vmin \in {0, 1}, t \in {0, 100}}

NoConv == [result |-> NilTermios, err |-> NilError]
NoRet == [file |-> "nil", err |-> NilError]

----------------------------------------------------------------------------
(* convertOptions called on its own.                                       *)

InitConvert ==
    /\ \/ TimingInputs(options)
       \/ ReadSizeInputs(options)
       \/ FramingInputs(options)
    /\ pc = "call"
    /\ conv = NoConv
    /\ fd = "none"
    /\ calls = <<>>
    /\ applied = NilTermios
    /\ ret = NoRet

ConvertCall ==
    /\ pc = "call"
    /\ conv' = convertOptions(options)
    /\ pc' = "converted"
    /\ UNCHANGED <<options, fd, calls, applied, ret>>

NextConvert == ConvertCall

SpecConvert == InitConvert /\ [][NextConvert]_vars

----------------------------------------------------------------------------
(* openInternal.                                                           *)

Call(op, r1, errno) == [op |-> op, r1 |-> r1, errno |-> errno]

\* os.OpenFile fails with a *PathError carrying the errno of open(2).
PathError(errno) == [syscall |-> "open", errno |-> errno, msg |-> ""]

\* The checks after the F_SETFL fcntl: errno first, then the return value.
CheckFcntlErrnoOnly(r1, errno) ==
    NewSyscallError("SYS_IOCTL", errno)
CheckFcntl(r1, errno) ==
    IF NewSyscallError("SYS_IOCTL", errno) # NilError
    THEN NewSyscallError("SYS_IOCTL", errno)
    ELSE IF r1 # 0 THEN ErrFcntl
    ELSE NilError

\* setTermios, given what the TIOCSETA ioctl returned.
setTermios(r1, errno) ==
    IF NewSyscallError("SYS_IOCTL", errno) # NilError
    THEN NewSyscallError("SYS_IOCTL", errno)
    ELSE IF r1 # 0 THEN ErrIoctl
    ELSE NilError

Init ==
    /\ options \in OpenInputs
    /\ pc = "OpenFile"
    /\ conv = NoConv
    /\ fd = "none"
    /\ calls = <<>>
    /\ applied = NilTermios
    /\ ret = NoRet

\* file, err := os.OpenFile(...); if err != nil { return nil, err }
OpenFile ==
    /\ pc = "OpenFile"
    /\ \E errno \in 0 .. MaxErrno :
        /\ calls' = Append(calls, Call("OpenFile", 0, errno))
        /\ IF errno # 0
           THEN /\ ret' = [file |-> "nil", err |-> PathError(errno)]
                /\ pc' = "done"
                /\ fd' = fd
           ELSE /\ fd' = "open"
                /\ pc' = "fcntl"
                /\ ret' = ret
    /\ UNCHANGED <<options, conv, applied>>

\* The F_SETFL fcntl clearing O_NONBLOCK, and the two checks of its result.
ClearNonblock ==
    /\ pc = "fcntl"
    /\ \E r1 \in 0 .. MaxR1, errno \in 0 .. MaxErrno :
        /\ calls' = Append(calls, Call("fcntl", r1, errno))
        /\ IF CheckFcntl(r1, errno) # NilError
           THEN /\ ret' = [file |-> "nil", err |-> CheckFcntl(r1, errno)]
                /\ pc' = "done"
           ELSE /\ pc' = "convertOptions"
                /\ ret' = ret
    /\ UNCHANGED <<options, conv, fd, applied>>

\* terminalOptions, err := convertOptions(options); if err != nil { return nil, err }
Convert ==
    /\ pc = "convertOptions"
    /\ conv' = convertOptions(options)
    /\ calls' = Append(calls, Call("convertOptions", 0, 0))
    /\ IF conv'.err # NilError
       THEN /\ ret' = [file |-> "nil", err |-> conv'.err]
            /\ pc' = "done"
       ELSE /\ pc' = "setTermios"
            /\ ret' = ret
    /\ UNCHANGED <<options, fd, applied>>

\* err = setTermios(file.Fd(), terminalOptions); return file, nil on success.
SetTermios ==
    /\ pc = "setTermios"
    /\ \E r1 \in 0 .. MaxR1, errno \in 0 .. MaxErrno :
        /\ calls' = Append(calls, Call("ioctl", r1, errno))
        /\ applied' = conv.result
        /\ IF setTermios(r1, errno) # NilError
           THEN ret' = [file |-> "nil", err |-> setTermios(r1, errno)]
           ELSE ret' = [file |-> "file", err |-> NilError]
        /\ pc' = "done"
    /\ UNCHANGED <<options, conv, fd>>

Next == OpenFile \/ ClearNonblock \/ Convert \/ SetTermios

Spec == Init /\ [][Next]_vars

----------------------------------------------------------------------------
(* Vocabulary of the properties, stated without the operators above.       *)

RECURSIVE BitAnd(_, _)
BitAnd(a, b) ==
    IF a = 0 \/ b = 0 THEN 0
    ELSE (IF a % 2 = 1 /\ b % 2 = 1 THEN 1 ELSE 0) + 2 * BitAnd(a \div 2, b \div 2)

HasFlag(word, flag) == BitAnd(word, flag) = flag

\* The multiple of 100 nearest to t, an exact half going up.
NearestHundred(t) ==
    CHOOSE m \in {100 * k : k \in 0 .. (t \div 100 + 1)} : m - 50 <= t /\ t < m + 50

StandardRates ==
    {50, 75, 110, 134, 150, 200, 300, 600, 1200, 1800, 2400, 4800, 7200, 9600,
     14400, 19200, 28800, 38400, 57600, 76800, 115200, 230400}

TimingAccepted(o) ==
    /\ ~(o.MinimumReadSize = 0 /\ NearestHundred(o.InterCharacterTimeout) < 100)
    /\ NearestHundred(o.InterCharacterTimeout) <= 25500
BaudAccepted(o) == o.BaudRate \in StandardRates
DataAccepted(o) == o.DataBits \in {5, 6, 7, 8}
StopAccepted(o) == o.StopBits \in {1, 2}
ParityAccepted(o) == o.ParityMode \in {PARITY_NONE, PARITY_ODD, PARITY_EVEN}

ValidOptions(o) ==
    /\ TimingAccepted(o)
    /\ BaudAccepted(o)
    /\ DataAccepted(o)
    /\ StopAccepted(o)
    /\ ParityAccepted(o)

TimingErrors == {ErrTimingBoth, ErrTimeout}

Returned == pc = "converted"
Succeeded == Returned /\ conv.err = NilError
Failed(e) == conv.err = e /\ conv.result = NilTermios

----------------------------------------------------------------------------
(* C1: in openInternal, whenever the path was opened and a later step      *)
(* fails, the descriptor has been closed exactly once when the error is    *)
(* returned.                                                               *)

CloseCount == Cardinality({i \in 1 .. Len(calls) : calls[i].op = "Close"})

C1_ClosedOnceOnFailure ==
    (pc = "done" /\ Len(calls) >= 2 /\ ret.err # NilError)
        => (fd = "closed" /\ CloseCount = 1)

----------------------------------------------------------------------------
(* C2 as stated: with MinimumReadSize = 0, every InterCharacterTimeout     *)
(* below 100 fails with the invalid-timing error and no structure, and     *)
(* InterCharacterTimeout = 100 with the other fields valid succeeds with   *)
(* the TIME slot equal to 1.                                               *)

C2_Original ==
    (Returned /\ options.MinimumReadSize = 0) =>
        /\ options.InterCharacterTimeout < 100 =>
              (conv.err \in TimingErrors /\ conv.result = NilTermios)
        /\ (options.InterCharacterTimeout = 100
              /\ BaudAccepted(options) /\ DataAccepted(options)
              /\ StopAccepted(options) /\ ParityAccepted(options)) =>
              (conv.err = NilError /\ conv.result.c_cc[kVTIME] = 1)

(* C2 amended: with MinimumReadSize = 0, every InterCharacterTimeout below *)
(* 50 fails with the invalid-timing error and no structure; every          *)
(* InterCharacterTimeout from 50 to 100 (50 and 100 included), the other   *)
(* fields valid, succeeds with the TIME slot equal to 1.                   *)

C2_ZeroMinimumTiming ==
    (Returned /\ options.MinimumReadSize = 0) =>
        /\ options.InterCharacterTimeout < 50 =>
              (conv.err \in TimingErrors /\ conv.result = NilTermios)
        /\ (options.InterCharacterTimeout \in 50 .. 100
              /\ BaudAccepted(options) /\ DataAccepted(options)
              /\ StopAccepted(options) /\ ParityAccepted(options)) =>
              (conv.err = NilError /\ conv.result.c_cc[kVTIME] = 1)

C2_Witness ==
    /\ Returned
    /\ options.MinimumReadSize = 0
    /\ options.InterCharacterTimeout = 50
    /\ conv.err = NilError
    /\ conv.result.c_cc[kVTIME] = 1

----------------------------------------------------------------------------
(* C3: vtime is the multiple of 100 nearest to InterCharacterTimeout, an   *)
(* exact half rounded up (149 -> 100, 150 -> 200, 25550 -> 25600); the     *)
(* conversion fails with the invalid-timing error whenever vtime > 25500,  *)
(* and on success the TIME slot holds vtime/100, a value in 0..255.        *)

C3_TimeoutRounding ==
    Returned =>
        LET t == options.InterCharacterTimeout
            v == NearestHundred(t)
        IN  /\ vtimeOf(t) = v
            /\ t = 149 => vtimeOf(t) = 100
            /\ t = 150 => vtimeOf(t) = 200
            /\ t = 25550 => vtimeOf(t) = 25600
            /\ v > 25500 => (conv.err \in TimingErrors /\ conv.result = NilTermios)
            /\ conv.err = NilError =>
                  /\ conv.result.c_cc[kVTIME] = v \div 100
                  /\ conv.result.c_cc[kVTIME] \in 0 .. 255

C3_Witness ==
    /\ Returned
    /\ options.InterCharacterTimeout = 150
    /\ conv.err = NilError
    /\ conv.result.c_cc[kVTIME] = 2

----------------------------------------------------------------------------
(* C4: with the other fields valid, the conversion succeeds exactly when   *)
(* BaudRate is one of the 22 standard rates; then both speed fields equal  *)
(* BaudRate; for any other BaudRate it fails with the baud-rate error.     *)

C4_BaudRate ==
    (Returned /\ TimingAccepted(options) /\ DataAccepted(options)
        /\ StopAccepted(options) /\ ParityAccepted(options)) =>
        /\ conv.err = NilError <=> options.BaudRate \in StandardRates
        /\ conv.err = NilError =>
              /\ conv.result.c_ispeed = options.BaudRate
              /\ conv.result.c_ospeed = options.BaudRate
        /\ options.BaudRate \notin StandardRates => Failed(ErrBaudRate)

C4_Witness ==
    /\ Returned
    /\ options.BaudRate = 230400
    /\ conv.err = NilError
    /\ conv.result.c_ispeed = 230400
    /\ conv.result.c_ospeed = 230400

----------------------------------------------------------------------------
(* C5: with the other fields valid, every DataBits outside {5,6,7,8} fails *)
(* with the data-bits error; each valid DataBits leaves in the character-  *)
(* size field (mask 0x300) exactly its own pattern: 5 -> 0x000,            *)
(* 6 -> 0x100, 7 -> 0x200, 8 -> 0x300.                                     *)

C5_DataBits ==
    (Returned /\ TimingAccepted(options) /\ BaudAccepted(options)
        /\ StopAccepted(options) /\ ParityAccepted(options)) =>
        /\ options.DataBits \notin {5, 6, 7, 8} => Failed(ErrDataBits)
        /\ options.DataBits \in {5, 6, 7, 8} =>
              /\ conv.err = NilError
              /\ BitAnd(conv.result.c_cflag, 768) = (options.DataBits - 5) * 256

C5_Witness ==
    /\ Returned
    /\ options.DataBits = 7
    /\ conv.err = NilError
    /\ BitAnd(conv.result.c_cflag, 768) = 512

----------------------------------------------------------------------------
(* C6: with the other fields valid, ParityMode NONE leaves parity-enable   *)
(* and odd-parity clear, ODD sets both, EVEN sets parity-enable only, and  *)
(* any other ParityMode fails with the parity-mode error and no structure. *)

C6_ParityMode ==
    (Returned /\ TimingAccepted(options) /\ BaudAccepted(options)
        /\ DataAccepted(options) /\ StopAccepted(options)) =>
        /\ options.ParityMode = PARITY_NONE =>
              /\ conv.err = NilError
              /\ BitAnd(conv.result.c_cflag, 4096) = 0
              /\ BitAnd(conv.result.c_cflag, 8192) = 0
        /\ options.ParityMode = PARITY_ODD =>
              /\ conv.err = NilError
              /\ BitAnd(conv.result.c_cflag, 4096) = 4096
              /\ BitAnd(conv.result.c_cflag, 8192) = 8192
        /\ options.ParityMode = PARITY_EVEN =>
              /\ conv.err = NilError
              /\ BitAnd(conv.result.c_cflag, 4096) = 4096
              /\ BitAnd(conv.result.c_cflag, 8192) = 0
        /\ ~ParityAccepted(options) => Failed(ErrParityMode)

C6_Witness ==
    /\ Returned
    /\ options.ParityMode = PARITY_EVEN
    /\ conv.err = NilError
    /\ BitAnd(conv.result.c_cflag, 4096) = 4096
    /\ BitAnd(conv.result.c_cflag, 8192) = 0

----------------------------------------------------------------------------
(* C7: with the other fields valid, StopBits = 1 never sets the two-stop-  *)
(* bit flag whatever DataBits and ParityMode are, StopBits = 2 always sets *)
(* it, and any other StopBits fails with the stop-bits error and no        *)
(* structure.                                                              *)

C7_StopBits ==
    (Returned /\ TimingAccepted(options) /\ BaudAccepted(options)
        /\ DataAccepted(options) /\ ParityAccepted(options)) =>
        /\ options.StopBits = 1 =>
              (conv.err = NilError /\ BitAnd(conv.result.c_cflag, 1024) = 0)
        /\ options.StopBits = 2 =>
              (conv.err = NilError /\ BitAnd(conv.result.c_cflag, 1024) = 1024)
        /\ options.StopBits \notin {1, 2} => Failed(ErrStopBits)

C7_Witness ==
    /\ Returned
    /\ options.StopBits = 2
    /\ options.DataBits = 8
    /\ options.ParityMode = PARITY_ODD
    /\ conv.err = NilError
    /\ BitAnd(conv.result.c_cflag, 1024) = 1024

----------------------------------------------------------------------------
(* C8: on every successful conversion the MIN slot equals MinimumReadSize  *)
(* (never a value truncated modulo 256), so no successful conversion ends  *)
(* with MIN = 0 and TIME = 0.                                              *)

C8_MinSlot ==
    Succeeded =>
        /\ conv.result.c_cc[kVMIN] = options.MinimumReadSize
        /\ ~(conv.result.c_cc[kVMIN] = 0 /\ conv.result.c_cc[kVTIME] = 0)

----------------------------------------------------------------------------
(* C9: every structure of a successful conversion has ignore-modem-status- *)
(* lines and enable-receiver set, has the input-, output- and line-flags   *)
(* words zero, and has no control-flag bit besides the two baseline flags, *)
(* the character-size field, the two-stop-bit flag and the parity flags.   *)

C9_BaselineFlags ==
    Succeeded =>
        /\ HasFlag(conv.result.c_cflag, 32768)
        /\ HasFlag(conv.result.c_cflag, 2048)
        /\ conv.result.c_iflag = 0
        /\ conv.result.c_oflag = 0
        /\ conv.result.c_lflag = 0
        /\ BitAnd(conv.result.c_cflag, 32768 + 2048 + 768 + 1024 + 4096 + 8192)
              = conv.result.c_cflag

C9_Witness ==
    /\ Succeeded
    /\ options.ParityMode = PARITY_ODD
    /\ options.StopBits = 2
    /\ options.DataBits = 8
    /\ conv.result.c_cflag = 32768 + 2048 + 768 + 1024 + 4096 + 8192

----------------------------------------------------------------------------
(* C10: openInternal performs open, clear-non-blocking, convertOptions,    *)
(* setTermios in this order, each at most once and only after every        *)
(* earlier step succeeded; the ioctl is never issued for invalid options   *)
(* or after a failed mode switch; the caller receives the error of the     *)
(* first failing step, and a handle exactly when all four succeeded.       *)

StepOrder == <<"OpenFile", "fcntl", "convertOptions", "ioctl">>

StepOk(c) ==
    /\ c.r1 = 0
    /\ c.errno = 0
    /\ c.op = "convertOptions" => ValidOptions(options)

\* The error the failing step c hands to the caller.
ErrorOfStep(c, e) ==
    /\ e # NilError
    /\ c.op = "OpenFile" => (e.syscall = "open" /\ e.errno = c.errno)
    /\ c.op \in {"fcntl", "ioctl"} =>
          IF c.errno # 0 THEN e.errno = c.errno /\ e.msg = ""
          ELSE /\ e.errno = 0
               /\ c.op = "fcntl" => e.msg = "Unknown error from SYS_FCNTL."
               /\ c.op = "ioctl" => e.msg = "Unknown error from SYS_IOCTL."
    /\ c.op = "convertOptions" =>
          e \in {ErrTimingBoth, ErrTimeout, ErrBaudRate, ErrDataBits,
                 ErrStopBits, ErrParityMode}

C10_LinearSequence ==
    /\ Len(calls) <= 4
    /\ \A i \in 1 .. Len(calls) :
          /\ calls[i].op = StepOrder[i]
          /\ i < Len(calls) => StepOk(calls[i])
    /\ Len(calls) = 4 => applied = conv.result /\ applied # NilTermios
    /\ Len(calls) < 4 => applied = NilTermios
    /\ pc # "done" => ret = NoRet
    /\ pc = "done" =>
          /\ Len(calls) >= 1
          /\ IF Len(calls) = 4 /\ StepOk(calls[4])
             THEN ret = [file |-> "file", err |-> NilError]
             ELSE /\ ret.file = "nil"
                  /\ ~StepOk(calls[Len(calls)])
                  /\ ErrorOfStep(calls[Len(calls)], ret.err)

C10_Witness ==
    /\ pc = "done"
    /\ Len(calls) = 4
    /\ calls[4].r1 # 0
    /\ calls[4].errno = 0
    /\ ret.file = "nil"
    /\ ret.err = ErrIoctl

====
